---- MODULE Spec2Model ----
(***************************************************************************)
(* Model of src/app/page.tsx: the Home component of the eval tracker.      *)
(* State is the component's React state, the browser clock, the            *)
(* localStorage slot 'personalEvals' and the hosted 'evals' table.         *)
(* Every handler is one action; a handler that sets state ends with the   *)
(* re-render that recomputes `today = new Date()'.                         *)
(*                                                                         *)
(* Time is counted in clock ticks; a calendar day has TicksPerDay ticks,   *)
(* tick 0 of a day being local midnight exactly.  Calendar dates           *)
(* ('yyyy-MM-dd' strings) are triples <<year, month, day>> of a calendar   *)
(* of 365-day years.                                                       *)
(***************************************************************************)
EXTENDS Integers, Sequences, FiniteSets, TLC

VARIABLES now, today, remote, fetchDate, masterEvals, personalEvals, loading,
          viewMode, weekOffset, selectedMonth, newEventTitle, newEventTime,
          isFormOpen, store, hist

vars == <<now, today, remote, fetchDate, masterEvals, personalEvals, loading,
          viewMode, weekOffset, selectedMonth, newEventTitle, newEventTime,
          isFormOpen, store, hist>>

----------------------------------------------------------------------------
(* Bounds of the model *)

TicksPerDay == 2

MaxElapsed == 2

MaxPersonal == 2

MaxWeekOffset == 1

(* Load days (day numbers since 1 January of year 0): 1 March and 1 June *)
StartDays == {59, 151}

Titles == {"", "Gym"}

TimeLabels == {"", "2 PM"}

----------------------------------------------------------------------------
(* Calendar: date-fns format / parseISO / addDays / isSameDay / isAfter *)

MonthStart == <<0, 31, 59, 90, 120, 151, 181, 212, 243, 273, 304, 334>>

MonthLength == <<31, 28, 31, 30, 31, 30, 31, 31, 30, 31, 30, 31>>

MonthLabels == <<"JAN", "FEB", "MAR", "APR", "MAY", "JUN",
                 "JUL", "AUG", "SEP", "OCT", "NOV", "DEC">>

DayNumber(t) == t \div TicksPerDay

MonthOfDay(dn) ==
    CHOOSE m \in 1..12 : /\ MonthStart[m] <= dn % 365
                         /\ dn % 365 < MonthStart[m] + MonthLength[m]

DateOfDay(dn) ==
    <<dn \div 365, MonthOfDay(dn), (dn % 365) - MonthStart[MonthOfDay(dn)] + 1>>

(* format(d, 'yyyy-MM-dd') *)
FormatDate(t) == DateOfDay(DayNumber(t))

(* day number of a 'yyyy-MM-dd' string *)
DayOfDate(date) == date[1] * 365 + MonthStart[date[2]] + date[3] - 1

(* parseISO(s): local midnight of the date *)
ParseISO(date) == DayOfDate(date) * TicksPerDay

(* new Date(s).getTime(): the sort key of allEvals, a fixed offset from
   local midnight for every date *)
GetTime(date) == DayOfDate(date) * TicksPerDay

(* Variant: the label of the following month (a month index off by one) *)
FormatMMMUpperNextMonth(t) == MonthLabels[(MonthOfDay(DayNumber(t)) % 12) + 1]

(* format(d, 'MMM').toUpperCase() *)
FormatMMMUpper(t) == MonthLabels[MonthOfDay(DayNumber(t))]

addDays(t, n) == t + n * TicksPerDay

isSameDay(a, b) == DayNumber(a) = DayNumber(b)

isAfter(a, b) == a > b

----------------------------------------------------------------------------
(* Generic sequence helpers *)

(* Position at which a stable sort puts e into the sorted sequence s: after
   every element that is not later than e *)
StableInsertAt(s, e) ==
    Cardinality({i \in 1..Len(s) : GetTime(s[i].event_date) <= GetTime(e.event_date)})

StableInsert(s, e) ==
    SubSeq(s, 1, StableInsertAt(s, e)) \o <<e>> \o SubSeq(s, StableInsertAt(s, e) + 1, Len(s))

(* Array.prototype.sort((a, b) => time(a) - time(b)): stable, ascending *)
RECURSIVE SortByDate(_)
SortByDate(s) ==
    IF s = <<>> THEN <<>>
    ELSE StableInsert(SortByDate(SubSeq(s, 1, Len(s) - 1)), s[Len(s)])

IdsOf(s) == {s[i].id : i \in 1..Len(s)}

----------------------------------------------------------------------------
(* The hosted table and the query of fetchData *)

RemoteRow(i, dn, ty) ==
    [id |-> i, title |-> "Eval", event_date |-> DateOfDay(dn),
     time_range |-> "9 AM", type |-> ty, isPersonal |-> FALSE,
     description |-> "Syllabus"]

(* Rows of the table, in no particular order, dated around the load day *)
TableFor(sd) ==
    << RemoteRow(1, sd + 14, "Compre"), RemoteRow(2, sd, "Quiz"),
       RemoteRow(3, sd + 1, "Lab"),     RemoteRow(4, sd - 1, "Quiz"),
       RemoteRow(5, sd + 13, "Midsem"), RemoteRow(6, sd, "Deadline"),
       RemoteRow(7, sd + 2, "Lab"),     RemoteRow(8, sd + 20, "Quiz") >>

(* Variant: the date filter is left out of the query *)
GteUnfiltered(rows, date) == rows

(* .gte('event_date', d): 'yyyy-MM-dd' strings compare as dates *)
Gte(rows, date) ==
    LET Keep(r) == DayOfDate(r.event_date) >= DayOfDate(date)
    IN  SelectSeq(rows, Keep)

(* .select('*').gte('event_date', d).order('event_date', {ascending: true}) *)
Query(rows, date) == SortByDate(Gte(rows, date))

----------------------------------------------------------------------------
(* localStorage slot 'personalEvals' and JSON *)

NoItem == [present |-> FALSE, text |-> <<>>]

(* JSON.stringify(list): the text is the sequence of the objects' values in
   key order id, title, event_date, time_range, type, isPersonal, description *)
JSONstringify(list) ==
    [present |-> TRUE,
     text |-> [i \in 1..Len(list) |->
                 <<list[i].id, list[i].title, list[i].event_date,
                   list[i].time_range, list[i].type, list[i].isPersonal,
                   list[i].description>>]]

JSONparse(item) ==
    [i \in 1..Len(item.text) |->
       [id |-> item.text[i][1], title |-> item.text[i][2],
        event_date |-> item.text[i][3], time_range |-> item.text[i][4],
        type |-> item.text[i][5], isPersonal |-> item.text[i][6],
        description |-> item.text[i][7]]]

(* if (stored) ...: null is falsy, every text stringify writes is truthy *)
Truthy(item) == item.present

----------------------------------------------------------------------------
(* View logic, recomputed on every render *)

(* Variant: the personal list is spread before the remote list *)
allEvalsPersonalFirst == SortByDate(personalEvals \o masterEvals)

allEvals == SortByDate(masterEvals \o personalEvals)

tomorrow == addDays(today, 1)

InToday(e) == isSameDay(ParseISO(e.event_date), today)

InTomorrow(e) == isSameDay(ParseISO(e.event_date), tomorrow)

(* Variant: the window opens after today instead of after tomorrow *)
InUpcomingFromToday(e) ==
    /\ isAfter(ParseISO(e.event_date), today)
    /\ isAfter(addDays(today, 14), ParseISO(e.event_date))

InUpcoming(e) ==
    /\ isAfter(ParseISO(e.event_date), tomorrow)
    /\ isAfter(addDays(today, 14), ParseISO(e.event_date))

todayEvals == SelectSeq(allEvals, InToday)

tomorrowEvals == SelectSeq(allEvals, InTomorrow)

upcomingEvals == SelectSeq(allEvals, InUpcoming)

InMonth(e) == FormatMMMUpper(ParseISO(e.event_date)) = selectedMonth

monthlyEvals == SelectSeq(allEvals, InMonth)

monthTabs == <<"JAN", "FEB", "MAR", "APR", "MAY">>

(* Variant: the controls are rendered while the load is still pending *)
InteractiveWhileLoading == TRUE

(* if (loading) return <Loading/>: no control is rendered while loading *)
Interactive == ~loading

----------------------------------------------------------------------------
(* History record: the last create or delete and the state it started from *)

NoHist == [op |-> "none", id |-> 0, store0 |-> NoItem, personal0 |-> <<>>,
           master0 |-> <<>>, picked |-> FALSE]

Snapshot(op, id) ==
    [op |-> op, id |-> id, store0 |-> store, personal0 |-> personalEvals,
     master0 |-> masterEvals, picked |-> hist.picked]

----------------------------------------------------------------------------
(* Initial state: first render, fetchData issued *)

PreviousTask(sd) ==
    [id |-> sd * TicksPerDay - 1, title |-> "Gym",
     event_date |-> DateOfDay(sd - 1), time_range |-> "All Day",
     type |-> "Personal", isPersonal |-> TRUE, description |-> "Personal Task"]

Init ==
    \E sd \in StartDays :
        /\ now = sd * TicksPerDay
        /\ today = now
        /\ remote = TableFor(sd)
        /\ fetchDate = FormatDate(now)
        /\ masterEvals = <<>>
        /\ personalEvals = <<>>
        /\ loading = TRUE
        /\ viewMode = "daily"
        /\ weekOffset = 0
        /\ selectedMonth = FormatMMMUpper(now)
        /\ newEventTitle = ""
        /\ newEventTime = ""
        /\ isFormOpen = FALSE
        /\ store \in {NoItem, JSONstringify(<<>>), JSONstringify(<<PreviousTask(sd)>>)}
        /\ hist = NoHist

----------------------------------------------------------------------------
(* Actions *)

Elapsed == now - ParseISO(fetchDate)

(* The clock advances; nothing re-renders *)
Tick ==
    /\ Elapsed < MaxElapsed
    /\ now' = now + 1
    /\ UNCHANGED <<today, remote, fetchDate, masterEvals, personalEvals, loading,
                   viewMode, weekOffset, selectedMonth, newEventTitle,
                   newEventTime, isFormOpen, store, hist>>

(* personalEvals after `if (stored) setPersonalEvals(JSON.parse(stored))' *)
LoadPersonal(item) == IF Truthy(item) THEN JSONparse(item) ELSE personalEvals

(* fetchData after its await: data is the query's rows, or null on failure *)
fetchData(ok) ==
    /\ loading
    /\ masterEvals' = IF ok THEN Query(remote, fetchDate) ELSE masterEvals
    /\ personalEvals' = LoadPersonal(store)
    /\ loading' = FALSE
    /\ today' = now
    /\ UNCHANGED <<now, remote, fetchDate, viewMode, weekOffset, selectedMonth,
                   newEventTitle, newEventTime, isFormOpen, store, hist>>

newEval ==
    [id |-> now, title |-> newEventTitle, event_date |-> FormatDate(now),
     time_range |-> IF newEventTime = "" THEN "All Day" ELSE newEventTime,
     type |-> "Personal", isPersonal |-> TRUE, description |-> "Personal Task"]

(* Variant: only the new task is written, not the whole list *)
StoredAfterAddAppendOnly == JSONstringify(<<newEval>>)

(* localStorage.setItem('personalEvals', JSON.stringify(updated)) of add *)
StoredAfterAdd == JSONstringify(personalEvals \o <<newEval>>)

addPersonalEval ==
    /\ Interactive
    /\ isFormOpen
    /\ IF newEventTitle = ""
       THEN UNCHANGED vars
       ELSE /\ Len(personalEvals) < MaxPersonal
            /\ personalEvals' = personalEvals \o <<newEval>>
            /\ store' = StoredAfterAdd
            /\ newEventTitle' = ""
            /\ newEventTime' = ""
            /\ isFormOpen' = FALSE
            /\ today' = now
            /\ hist' = Snapshot("create", now)
            /\ UNCHANGED <<now, remote, fetchDate, masterEvals, loading,
                           viewMode, weekOffset, selectedMonth>>

(* Variant: the filter keeps the matching tasks instead of the others *)
RemainingInverted(list, id) ==
    LET Keep(e) == e.id = id
    IN  SelectSeq(list, Keep)

(* personalEvals.filter((e) => e.id !== id) *)
Remaining(list, id) ==
    LET Keep(e) == e.id # id
    IN  SelectSeq(list, Keep)

(* Variant: the list of the previous render is written, not the filtered one *)
StoredAfterDeleteStale(id) == JSONstringify(personalEvals)

(* localStorage.setItem('personalEvals', JSON.stringify(updated)) of delete *)
StoredAfterDelete(id) == JSONstringify(Remaining(personalEvals, id))

deletePersonalEval(id) ==
    /\ Interactive
    /\ personalEvals' = Remaining(personalEvals, id)
    /\ store' = StoredAfterDelete(id)
    /\ today' = now
    /\ hist' = IF hist.op = "create" /\ hist.id = id
               THEN [hist EXCEPT !.op = "createDelete"]
               ELSE Snapshot("delete", id)
    /\ UNCHANGED <<now, remote, fetchDate, masterEvals, loading, viewMode,
                   weekOffset, selectedMonth, newEventTitle, newEventTime,
                   isFormOpen>>

setViewMode(mode) ==
    /\ Interactive
    /\ viewMode' = mode
    /\ weekOffset' = IF mode = "weekly" THEN 0 ELSE weekOffset
    /\ today' = now
    /\ UNCHANGED <<now, remote, fetchDate, masterEvals, personalEvals, loading,
                   selectedMonth, newEventTitle, newEventTime, isFormOpen,
                   store, hist>>

setWeekOffset(delta) ==
    /\ Interactive
    /\ viewMode = "weekly"
    /\ weekOffset + delta \in (0 - MaxWeekOffset)..MaxWeekOffset
    /\ weekOffset' = weekOffset + delta
    /\ today' = now
    /\ UNCHANGED <<now, remote, fetchDate, masterEvals, personalEvals, loading,
                   viewMode, selectedMonth, newEventTitle, newEventTime,
                   isFormOpen, store, hist>>

setSelectedMonth(m) ==
    /\ Interactive
    /\ viewMode = "monthly"
    /\ selectedMonth' = m
    /\ today' = now
    /\ hist' = [hist EXCEPT !.picked = TRUE]
    /\ UNCHANGED <<now, remote, fetchDate, masterEvals, personalEvals, loading,
                   viewMode, weekOffset, newEventTitle, newEventTime,
                   isFormOpen, store>>

setIsFormOpen(open) ==
    /\ Interactive
    /\ isFormOpen = ~open
    /\ isFormOpen' = open
    /\ today' = now
    /\ UNCHANGED <<now, remote, fetchDate, masterEvals, personalEvals, loading,
                   viewMode, weekOffset, selectedMonth, newEventTitle,
                   newEventTime, store, hist>>

setNewEventTitle(s) ==
    /\ Interactive
    /\ isFormOpen
    /\ newEventTitle' = s
    /\ today' = now
    /\ UNCHANGED <<now, remote, fetchDate, masterEvals, personalEvals, loading,
                   viewMode, weekOffset, selectedMonth, newEventTime,
                   isFormOpen, store, hist>>

setNewEventTime(s) ==
    /\ Interactive
    /\ isFormOpen
    /\ newEventTime' = s
    /\ today' = now
    /\ UNCHANGED <<now, remote, fetchDate, masterEvals, personalEvals, loading,
                   viewMode, weekOffset, selectedMonth, newEventTitle,
                   isFormOpen, store, hist>>

(* Tasks, form and clock: the handlers that read or write the two lists, the
   form fields and the persisted slot *)
Next ==
    \/ Tick
    \/ \E ok \in BOOLEAN : fetchData(ok)
    \/ addPersonalEval
    \/ \E id \in IdsOf(personalEvals) \cup {0} : deletePersonalEval(id)
    \/ \E open \in BOOLEAN : setIsFormOpen(open)
    \/ \E s \in Titles : setNewEventTitle(s)
    \/ \E s \in TimeLabels : setNewEventTime(s)

Spec == Init /\ [][Next]_vars

(* View navigation: the handlers of the dock, the week navigator and the
   month tabs, which write only viewMode, weekOffset and selectedMonth *)
ViewNext ==
    \/ Tick
    \/ \E ok \in BOOLEAN : fetchData(ok)
    \/ \E mode \in {"daily", "weekly", "monthly"} : setViewMode(mode)
    \/ \E delta \in {0 - 1, 1} : setWeekOffset(delta)
    \/ \E i \in 1..Len(monthTabs) : setSelectedMonth(monthTabs[i])

ViewSpec == Init /\ [][ViewNext]_vars

----------------------------------------------------------------------------
(* Properties *)

(* The list a startup read of the slot yields: an absent slot is the empty list *)
StoredList(item) == IF item.present THEN JSONparse(item) ELSE <<>>

Mutated == hist.op \in {"create", "delete", "createDelete"}

Inputs == masterEvals \o personalEvals

Offset(e) == DayOfDate(e.event_date) - DayNumber(today)

Occurs(e, s) == \E j \in 1..Len(s) : s[j] = e

TabLabels == {"JAN", "FEB", "MAR", "APR", "MAY"}

(* The month label of the load date, read off the 'yyyy-MM-dd' string *)
LoadMonthLabel == MonthLabels[fetchDate[2]]

(* C1: in a loaded session the slot and the in-memory personal list hold the
   same tasks, and once a create or delete has run the slot is exactly the
   serialization of the whole in-memory personal list *)
C1_StoreHoldsWholeList ==
    /\ ~loading => StoredList(store) = personalEvals
    /\ Mutated => store = JSONstringify(personalEvals)

C1_Witness ==
    /\ hist.op = "delete"
    /\ Len(hist.personal0) = 2
    /\ Len(personalEvals) = 1
    /\ store = JSONstringify(personalEvals)

(* C2 as stated: after a create followed by the delete of the created id the
   slot has its exact content from before the create, an absent slot
   included *)
C2_RoundTripExact ==
    hist.op = "createDelete" => store = hist.store0

(* C2 amended: after a create followed by the delete of the created id the
   slot holds the serialization of the prior list without the tasks that
   carry the created id; that is the prior content when the slot was present
   and no prior task carried the id, and the serialized empty list when the
   slot was absent *)
C2_RoundTripAmended ==
    hist.op = "createDelete" =>
        /\ store = JSONstringify(Remaining(hist.personal0, hist.id))
        /\ personalEvals = Remaining(hist.personal0, hist.id)
        /\ (hist.store0.present /\ hist.id \notin IdsOf(hist.personal0))
               => store = hist.store0
        /\ ~hist.store0.present => store = JSONstringify(<<>>)

C2_Witness ==
    /\ hist.op = "createDelete"
    /\ hist.store0.present
    /\ Len(hist.personal0) >= 1
    /\ hist.id \notin IdsOf(hist.personal0)
    /\ store = hist.store0

(* C3: in the Daily view an event dated today+13 days is in Upcoming, an
   event dated today+14 days is not, and an event dated today+1 day is not,
   at every time of day *)
C3_UpcomingBoundary ==
    LET all == allEvals
        upcoming == upcomingEvals
    IN  \A i \in 1..Len(all) :
            /\ Offset(all[i]) = 13 => Occurs(all[i], upcoming)
            /\ Offset(all[i]) = 14 => ~Occurs(all[i], upcoming)
            /\ Offset(all[i]) = 1 => ~Occurs(all[i], upcoming)

(* C4: no event of the merged sequence is in two of the buckets Today,
   Tomorrow, Upcoming *)
C4_BucketsDisjoint ==
    LET all == allEvals
        tdy == todayEvals
        tmw == tomorrowEvals
        upcoming == upcomingEvals
    IN  \A i \in 1..Len(all) :
            /\ ~(Occurs(all[i], tdy) /\ Occurs(all[i], tmw))
            /\ ~(Occurs(all[i], tdy) /\ Occurs(all[i], upcoming))
            /\ ~(Occurs(all[i], tmw) /\ Occurs(all[i], upcoming))

C4_Witness ==
    LET tdy == todayEvals
        tmw == tomorrowEvals
        upcoming == upcomingEvals
    IN  /\ today % TicksPerDay # 0
        /\ Len(personalEvals) > 0
        /\ Len(tdy) > 0
        /\ Len(tmw) > 0
        /\ Len(upcoming) > 0
        /\ Len(tdy) + Len(tmw) + Len(upcoming) < Len(Inputs)

(* C5: all ids of the remote and the personal list are pairwise distinct, and
   a delete removes at most one task *)
C5_IdsUnique ==
    /\ \A i, j \in 1..Len(Inputs) : i # j => Inputs[i].id # Inputs[j].id
    /\ hist.op = "delete" => Len(hist.personal0) - Len(personalEvals) <= 1
    /\ hist.op = "createDelete" => Len(personalEvals) = Len(hist.personal0)

(* C6 as stated: every event of the merged sequence is dated on or after
   today *)
C6_NoPastEvents ==
    LET all == allEvals
    IN  \A i \in 1..Len(all) : DayOfDate(all[i].event_date) >= DayNumber(today)

(* C6 amended: every remote event of the merged sequence is dated on or
   after the date the session's query was issued with *)
C6_NoPastRemoteEvents ==
    LET all == allEvals
    IN  \A i \in 1..Len(all) :
            ~all[i].isPersonal
                => DayOfDate(all[i].event_date) >= DayOfDate(fetchDate)

C6_Witness ==
    LET all == allEvals
    IN  /\ ~loading
        /\ \E i \in 1..Len(all) :
               /\ ~all[i].isPersonal
               /\ DayOfDate(all[i].event_date) = DayOfDate(fetchDate)
        /\ \E i \in 1..Len(all) :
               /\ all[i].isPersonal
               /\ DayOfDate(all[i].event_date) < DayNumber(today)

(* C7: the merged sequence has the elements of both lists, each as often as
   the lists have it, in ascending date order, and the events of one date
   are in the order of the remote list followed by the personal list *)
C7_MergeSortedStable ==
    LET all == allEvals
    IN  /\ Len(all) = Len(Inputs)
        /\ \A i, j \in 1..Len(all) :
               i < j => GetTime(all[i].event_date) <= GetTime(all[j].event_date)
        /\ \A k \in 1..Len(Inputs) :
               LET OnDate(e) == e.event_date = Inputs[k].event_date
               IN  SelectSeq(all, OnDate) = SelectSeq(Inputs, OnDate)

C7_Witness ==
    LET all == allEvals
    IN  /\ Len(personalEvals) = 2
        /\ personalEvals[1].event_date # personalEvals[2].event_date
        /\ \E i, j \in 1..Len(all) :
               /\ i < j
               /\ ~all[i].isPersonal
               /\ all[j].isPersonal
               /\ all[i].event_date = all[j].event_date
        /\ Inputs # all

(* C8 as stated: a delete with an id no personal task carries leaves the
   personal list, the slot (an absent slot included) and the remote list
   unchanged *)
C8_DeleteUnknownNoOp ==
    (hist.op = "delete" /\ hist.id \notin IdsOf(hist.personal0)) =>
        /\ personalEvals = hist.personal0
        /\ masterEvals = hist.master0
        /\ store = hist.store0

(* C8 amended: a delete with an id no personal task carries leaves the
   personal list and the remote list unchanged; a present slot keeps its
   content, an absent slot is written with the serialized empty list *)
C8_DeleteUnknownAmended ==
    (hist.op = "delete" /\ hist.id \notin IdsOf(hist.personal0)) =>
        /\ personalEvals = hist.personal0
        /\ masterEvals = hist.master0
        /\ hist.store0.present => store = hist.store0
        /\ ~hist.store0.present =>
               /\ hist.personal0 = <<>>
               /\ store = JSONstringify(<<>>)

C8_Witness ==
    /\ hist.op = "delete"
    /\ hist.id \notin IdsOf(hist.personal0)
    /\ Len(hist.personal0) = 2
    /\ hist.store0.present
    /\ store = hist.store0

(* C9 as stated: selectedMonth is always one of the tab labels *)
C9_MonthIsTab == selectedMonth \in TabLabels

(* C9 amended: selectedMonth is a tab label or the label of the month of the
   load date; it is a tab label when the load date is in January to May and
   after any tab selection *)
C9_MonthIsTabOrLoadMonth ==
    /\ selectedMonth \in TabLabels \cup {LoadMonthLabel}
    /\ (hist.picked \/ LoadMonthLabel \in TabLabels) => selectedMonth \in TabLabels

C9_Witness ==
    /\ hist.picked
    /\ LoadMonthLabel = "JUN"
    /\ selectedMonth = "MAY"
    /\ viewMode = "weekly"

(* C10: while the load is pending the slot is not written and the form is
   closed, and the step that ends the load leaves the personal list equal to
   the list the slot holds *)
C10_NoWriteBeforeLoad ==
    [][loading => /\ store' = store
                  /\ ~isFormOpen /\ ~isFormOpen'
                  /\ ~loading' => personalEvals' = StoredList(store)]_vars

C10_Witness ==
    /\ hist.op = "create"
    /\ hist.store0.present
    /\ Len(hist.personal0) = 1
    /\ Len(StoredList(store)) = 2
    /\ StoredList(store)[1] = hist.personal0[1]

====
